---- MODULE Spec2Model ----
(***************************************************************************)
(* A model of the sequential ray tracer: Ray (raytracer.py), the optical   *)
(* elements SphericalRefraction and OutputPlane (opticalelements.py), the  *)
(* bundle generator make_bundle and the driver loop of main.py.            *)
(*                                                                         *)
(* Numbers.  The program computes in IEEE floats (numpy).  The model uses  *)
(* fixed-point numbers: the integer X stands for the real X / SCALE, and   *)
(* every product, quotient and square root is rounded to the nearest       *)
(* multiple of 1 / SCALE.  The three special floats the code can produce   *)
(* (nan from sqrt or arcsin outside their domain, +inf and -inf from a     *)
(* division by zero or np.infty) are three reserved values, and the        *)
(* arithmetic below propagates them as numpy does.                         *)
(***************************************************************************)
EXTENDS Integers, Sequences, FiniteSets, TLC

\* ------------------------------------------------------------------------
\* Floats as fixed-point numbers
\* ------------------------------------------------------------------------

\* One unit of length is SCALE grid steps.
SCALE == 100

\* The special floats.
NaN == -1999999999
PosInf == 2000000000
NegInf == -2000000000

IsNaN(a) == a = NaN
IsInf(a) == a = PosInf \/ a = NegInf

Sign(a) == IF a > 0 THEN 1 ELSE IF a < 0 THEN -1 ELSE 0

\* a / b for integers, b > 0, rounded to the nearest integer.
RoundDiv(a, b) == (2 * a + b) \div (2 * b)

\* a / b for integers, b # 0, rounded to the nearest integer.
SRoundDiv(a, b) == IF b > 0 THEN RoundDiv(a, b) ELSE RoundDiv(-a, -b)

RECURSIVE IsqrtBS(_, _, _)
\* Floor of the square root of n, by bisection on lo*lo <= n < hi*hi.
IsqrtBS(n, lo, hi) ==
    IF hi - lo <= 1 THEN lo
    ELSE LET mid == (lo + hi) \div 2
         IN  IF mid * mid <= n THEN IsqrtBS(n, mid, hi) ELSE IsqrtBS(n, lo, mid)

\* Square root of the integer n >= 0, rounded to the nearest integer (46340 is
\* the largest integer whose square is a 32-bit integer).
Isqrt(n) ==
    LET r == IsqrtBS(n, 0, IF n + 1 < 46340 THEN n + 1 ELSE 46340)
    IN  IF n - r * r > r THEN r + 1 ELSE r

FNeg(a) ==
    IF IsNaN(a) THEN NaN
    ELSE IF a = PosInf THEN NegInf
    ELSE IF a = NegInf THEN PosInf
    ELSE -a

FAdd(a, b) ==
    IF IsNaN(a) \/ IsNaN(b) THEN NaN
    ELSE IF IsInf(a) THEN (IF IsInf(b) /\ b # a THEN NaN ELSE a)
    ELSE IF IsInf(b) THEN b
    ELSE a + b

FSub(a, b) == FAdd(a, FNeg(b))

FMul(a, b) ==
    IF IsNaN(a) \/ IsNaN(b) THEN NaN
    ELSE IF IsInf(a) \/ IsInf(b)
         THEN (IF a = 0 \/ b = 0 THEN NaN
               ELSE IF Sign(a) * Sign(b) > 0 THEN PosInf ELSE NegInf)
    ELSE SRoundDiv(a * b, SCALE)

\* numpy's float division: x / 0 is +-inf, 0 / 0 is nan (a warning, no exception).
FDiv(a, b) ==
    IF IsNaN(a) \/ IsNaN(b) THEN NaN
    ELSE IF IsInf(a)
         THEN (IF IsInf(b) THEN NaN
               ELSE IF Sign(a) * (IF b < 0 THEN -1 ELSE 1) > 0 THEN PosInf ELSE NegInf)
    ELSE IF IsInf(b) THEN 0
    ELSE IF b = 0
         THEN (IF a = 0 THEN NaN ELSE IF a > 0 THEN PosInf ELSE NegInf)
    ELSE SRoundDiv(a * SCALE, b)

\* np.sqrt: nan below zero.
FSqrt(a) ==
    IF IsNaN(a) THEN NaN
    ELSE IF a = PosInf THEN PosInf
    ELSE IF a < 0 THEN NaN
    ELSE Isqrt(a * SCALE)

\* x ** 2
FSq(a) == FMul(a, a)

\* Comparisons: every comparison with nan is false.
FLe(a, b) == ~IsNaN(a) /\ ~IsNaN(b) /\ a <= b
FLt(a, b) == ~IsNaN(a) /\ ~IsNaN(b) /\ a < b
FGt(a, b) == FLt(b, a)

\* The fixed-point image of the integer n.
Fix(n) == n * SCALE

\* ------------------------------------------------------------------------
\* 3-vectors (numpy arrays of three floats)
\* ------------------------------------------------------------------------

VAdd(a, b) == <<FAdd(a[1], b[1]), FAdd(a[2], b[2]), FAdd(a[3], b[3])>>
VSub(a, b) == <<FSub(a[1], b[1]), FSub(a[2], b[2]), FSub(a[3], b[3])>>
VScale(s, a) == <<FMul(s, a[1]), FMul(s, a[2]), FMul(s, a[3])>>
VDivS(a, s) == <<FDiv(a[1], s), FDiv(a[2], s), FDiv(a[3], s)>>

\* np.dot
Dot(a, b) == FAdd(FAdd(FMul(a[1], b[1]), FMul(a[2], b[2])), FMul(a[3], b[3]))

\* np.cross
Cross(a, b) ==
    <<FSub(FMul(a[2], b[3]), FMul(a[3], b[2])),
      FSub(FMul(a[3], b[1]), FMul(a[1], b[3])),
      FSub(FMul(a[1], b[2]), FMul(a[2], b[1]))>>

\* np.linalg.norm
Norm(a) == FSqrt(Dot(a, a))

VHasNaN(a) == \E i \in 1..3 : IsNaN(a[i])

\* Python's None.
None == <<>>

\* ------------------------------------------------------------------------
\* Ray (raytracer.py)
\* ------------------------------------------------------------------------

\* Ray.__init__ for a 3-element point and direction: the direction is divided
\* by its norm, the history starts with the point, the ray is not terminated.
RayNew(point, direction) ==
    [pos |-> point,
     dir |-> VDivS(direction, Norm(direction)),
     allpos |-> <<point>>,
     terminated |-> FALSE]

\* Ray.__init__ raises for a point or direction that has not 3 elements.
RayNewRaises(point, direction) == Len(point) # 3 \/ Len(direction) # 3

\* Ray.p, Ray.k, Ray.vertices, Ray.is_terminated
RayP(ray) == ray.pos
RayK(ray) == ray.dir
RayVertices(ray) == ray.allpos
RayIsTerminated(ray) == ray.terminated

\* Ray.append raises, before it changes anything, unless both arguments have
\* 3 elements.
RayAppendRaises(new_p, new_k) == Len(new_p) # 3 \/ Len(new_k) # 3

\* Ray.append with the history overwritten by the new position instead of
\* extended by it.
RayAppendOverwrites(ray, new_p, new_k) ==
    IF RayAppendRaises(new_p, new_k) THEN ray
    ELSE [ray EXCEPT !.pos = new_p,
                     !.dir = VDivS(new_k, Norm(new_k)),
                     !.allpos = [ray.allpos EXCEPT ![Len(ray.allpos)] = new_p]]

\* Ray.append storing the new position before it checks the length of the new
\* direction.
RayAppendStoresPositionFirst(ray, new_p, new_k) ==
    IF Len(new_p) # 3 THEN ray
    ELSE IF Len(new_k) # 3 THEN [ray EXCEPT !.pos = new_p]
    ELSE [ray EXCEPT !.pos = new_p,
                     !.dir = VDivS(new_k, Norm(new_k)),
                     !.allpos = Append(ray.allpos, new_p)]

\* Ray.append: the ray after the call.
RayAppend(ray, new_p, new_k) ==
    IF RayAppendRaises(new_p, new_k) THEN ray
    ELSE [ray EXCEPT !.pos = new_p,
                     !.dir = VDivS(new_k, Norm(new_k)),
                     !.allpos = Append(ray.allpos, new_p)]

\* Ray.terminate
RayTerminate(ray) == [ray EXCEPT !.terminated = TRUE]

\* ------------------------------------------------------------------------
\* Vector helpers of opticalelements.py
\* ------------------------------------------------------------------------

\* normalise_vector, for a 3-element vector
NormaliseVector(vector) == VDivS(vector, Norm(vector))

\* An angle is kept as the pair of its sine and cosine, which is all that
\* rotation_matrix reads of it.
NaNAngle == [sin |-> NaN, cos |-> NaN]

\* np.arcsin: an angle in [-pi/2, pi/2], so its cosine is the non-negative
\* root of 1 - sin^2; nan outside [-1, 1].
ArcSin(s) ==
    IF IsNaN(s) \/ s > Fix(1) \/ s < -Fix(1) THEN NaNAngle
    ELSE [sin |-> s, cos |-> FSqrt(FSub(Fix(1), FSq(s)))]

\* -theta
NegAngle(theta) == [sin |-> FNeg(theta.sin), cos |-> theta.cos]

Identity3 ==
    << <<Fix(1), 0, 0>>, <<0, Fix(1), 0>>, <<0, 0, Fix(1)>> >>

MScale(s, m) == [i \in 1..3 |-> VScale(s, m[i])]
MAdd(a, b) == [i \in 1..3 |-> VAdd(a[i], b[i])]
\* np.outer
Outer(a, b) == [i \in 1..3 |-> VScale(a[i], b)]
\* np.dot(matrix, vector)
MatVec(m, v) == [i \in 1..3 |-> Dot(m[i], v)]

\* rotation_matrix: Rodrigues' formula.  np.cross(unit_axis, identity * -1)
\* crosses the axis with each row of -I.
RotationMatrix(theta, unit_axis) ==
    LET cos == theta.cos
        sin == theta.sin
        identity_matrix == Identity3
        outer_matrix == Outer(unit_axis, unit_axis)
        cross_prod_matrix ==
            [i \in 1..3 |-> Cross(unit_axis, VScale(Fix(-1), identity_matrix[i]))]
    IN  MAdd(MAdd(MScale(cos, identity_matrix), MScale(sin, cross_prod_matrix)),
             MScale(FSub(Fix(1), cos), outer_matrix))

\* ------------------------------------------------------------------------
\* SphericalRefraction (opticalelements.py)
\* ------------------------------------------------------------------------

\* SphericalRefraction.__init__: the configuration of a surface.
SphericalRefraction(z0, curve, n1, n2, rad) ==
    [kind |-> "SphericalRefraction", zintercept |-> z0, curvature |-> curve,
     n1 |-> n1, n2 |-> n2, aperturerad |-> rad]

\* __init__: the radius is 1 / curvature, np.infty for a flat surface.
SphRadius(e) ==
    IF e.curvature = 0 THEN PosInf ELSE FDiv(Fix(1), e.curvature)

\* __init__: the centre is z0 + radius along the axis, z0 for a flat surface.
SphCentre(e) ==
    IF e.curvature = 0 THEN <<0, 0, e.zintercept>>
    ELSE <<0, 0, FAdd(e.zintercept, SphRadius(e))>>

\* The validity test without its upper bound i[2] <= centre[2].
SphValidNoCentreBound(e, i) ==
    LET x_sqr_plus_y_sqr == FAdd(FSq(i[1]), FSq(i[2]))
    IN  /\ FLe(x_sqr_plus_y_sqr, FSq(e.aperturerad))
        /\ FLe(e.zintercept, i[3])

\* The validity test of SphericalRefraction.intercept for one candidate point.
SphValid(e, i) ==
    LET x_sqr_plus_y_sqr == FAdd(FSq(i[1]), FSq(i[2]))
    IN  /\ FLe(x_sqr_plus_y_sqr, FSq(e.aperturerad))
        /\ FLe(e.zintercept, i[3])
        /\ FLe(i[3], SphCentre(e)[3])

\* The discriminant of SphericalRefraction.intercept:
\* r_dot_k ** 2 - (abs_centre_to_ray ** 2 - rad ** 2).
SphDisc(e, ray) ==
    LET centre_to_ray == VSub(RayP(ray), SphCentre(e))
        r_dot_k == Dot(centre_to_ray, RayK(ray))
        abs_centre_to_ray == Norm(centre_to_ray)
    IN  FSub(FSq(r_dot_k), FSub(FSq(abs_centre_to_ray), FSq(SphRadius(e))))

\* The square root both roots of SphericalRefraction.intercept share.
SphRoot(e, ray) == FSqrt(SphDisc(e, ray))

\* intercept_one and intercept_two of SphericalRefraction.intercept.
SphInterceptOne(e, ray) ==
    LET r_dot_k == Dot(VSub(RayP(ray), SphCentre(e)), RayK(ray))
        length_one == FAdd(FNeg(r_dot_k), SphRoot(e, ray))
    IN  VAdd(RayP(ray), VScale(length_one, RayK(ray)))

SphInterceptTwo(e, ray) ==
    LET r_dot_k == Dot(VSub(RayP(ray), SphCentre(e)), RayK(ray))
        length_two == FSub(FNeg(r_dot_k), SphRoot(e, ray))
    IN  VAdd(RayP(ray), VScale(length_two, RayK(ray)))

\* SphericalRefraction.intercept trying the nearer root, intercept_two, first.
SphInterceptNearestFirst(e, ray) ==
    LET intercept_one == SphInterceptOne(e, ray)
        intercept_two == SphInterceptTwo(e, ray)
    IN  IF SphValid(e, intercept_two) THEN intercept_two
        ELSE IF SphValid(e, intercept_one) THEN intercept_one
        ELSE None

\* SphericalRefraction.intercept: the first valid candidate, or None.
SphIntercept(e, ray) ==
    LET intercept_one == SphInterceptOne(e, ray)
        intercept_two == SphInterceptTwo(e, ray)
    IN  IF SphValid(e, intercept_one) THEN intercept_one
        ELSE IF SphValid(e, intercept_two) THEN intercept_two
        ELSE None

\* sin_theta_i of SphericalRefraction.snell.
SinThetaI(incident_dir, surface_normal) ==
    FSqrt(FSub(Fix(1), FSq(Dot(incident_dir, surface_normal))))

\* The test of SphericalRefraction.snell for total internal reflection.
SnellTIR(e, sin_theta_i) == FGt(sin_theta_i, FDiv(e.n1, e.n2))

\* SphericalRefraction.snell turning the normal by +theta_r about the axis
\* instead of -theta_r, which sends the refracted ray to the other side of the
\* normal.
SnellRotatesForward(e, incident_dir, surface_normal) ==
    LET cross_incident_normal == Cross(incident_dir, surface_normal)
        unit_axis == IF Norm(cross_incident_normal) = 0
                     THEN <<0, 0, Fix(1)>>
                     ELSE NormaliseVector(cross_incident_normal)
        sin_theta_i == SinThetaI(incident_dir, surface_normal)
        sin_theta_r == FDiv(FMul(sin_theta_i, e.n1), e.n2)
        theta_r == ArcSin(sin_theta_r)
    IN  IF SnellTIR(e, sin_theta_i) THEN None
        ELSE MatVec(RotationMatrix(theta_r, unit_axis), surface_normal)

\* SphericalRefraction.snell: the refracted direction, or None.
Snell(e, incident_dir, surface_normal) ==
    LET cross_incident_normal == Cross(incident_dir, surface_normal)
        unit_axis == IF Norm(cross_incident_normal) = 0
                     THEN <<0, 0, Fix(1)>>
                     ELSE NormaliseVector(cross_incident_normal)
        sin_theta_i == SinThetaI(incident_dir, surface_normal)
        sin_theta_r == FDiv(FMul(sin_theta_i, e.n1), e.n2)
        theta_r == ArcSin(sin_theta_r)
    IN  IF SnellTIR(e, sin_theta_i) THEN None
        ELSE MatVec(RotationMatrix(NegAngle(theta_r), unit_axis), surface_normal)

\* The unit vector from the intercept point to the centre, the surface normal
\* SphericalRefraction.propagate_ray hands to snell.
SphNormal(e, intercept_point) ==
    NormaliseVector(VSub(SphCentre(e), intercept_point))

\* SphericalRefraction.propagate_ray as the strict revisions had it: total
\* internal reflection is a hard failure and nothing is appended.
SphPropagateStrictTIR(e, ray) ==
    LET intercept_point == SphIntercept(e, ray)
        refracted_dir == Snell(e, RayK(ray), SphNormal(e, intercept_point))
    IN  IF intercept_point = None
        THEN [ray |-> RayTerminate(ray), raised |-> "NoInterceptError"]
        ELSE IF refracted_dir = None
        THEN [ray |-> RayTerminate(ray), raised |-> "TotalInternalReflection"]
        ELSE [ray |-> RayAppend(ray, intercept_point, refracted_dir),
              raised |-> "none"]

\* SphericalRefraction.propagate_ray with the no-intercept branch recording the
\* ray's position once more before it raises.
SphPropagateAppendsOnMiss(e, ray) ==
    LET intercept_point == SphIntercept(e, ray)
        refracted_dir == Snell(e, RayK(ray), SphNormal(e, intercept_point))
    IN  IF intercept_point = None
        THEN [ray |-> RayAppend(RayTerminate(ray), RayP(ray), RayK(ray)),
              raised |-> "NoInterceptError"]
        ELSE IF refracted_dir = None
        THEN [ray |-> RayAppend(RayTerminate(ray), intercept_point, RayK(ray)),
              raised |-> "none"]
        ELSE [ray |-> RayAppend(ray, intercept_point, refracted_dir),
              raised |-> "none"]

\* SphericalRefraction.propagate_ray: the ray after the call and the exception
\* the call raises ("none" when it returns).
SphPropagate(e, ray) ==
    LET intercept_point == SphIntercept(e, ray)
        refracted_dir == Snell(e, RayK(ray), SphNormal(e, intercept_point))
    IN  IF intercept_point = None
        THEN [ray |-> RayTerminate(ray), raised |-> "NoInterceptError"]
        ELSE IF refracted_dir = None
        THEN [ray |-> RayAppend(RayTerminate(ray), intercept_point, RayK(ray)),
              raised |-> "none"]
        ELSE [ray |-> RayAppend(ray, intercept_point, refracted_dir),
              raised |-> "none"]

\* ------------------------------------------------------------------------
\* OutputPlane (opticalelements.py)
\* ------------------------------------------------------------------------

\* OutputPlane.__init__
OutputPlane(z0) == [kind |-> "OutputPlane", zintercept |-> z0]

\* The point OutputPlane.intercept computes, and stores in the element's
\* field __interceptpoint before it returns that field.
OutIntercept(e, ray) ==
    LET n == FDiv(FSub(e.zintercept, RayP(ray)[3]), RayK(ray)[3])
    IN  VAdd(RayP(ray), VScale(n, RayK(ray)))

\* OutputPlane.propagate_ray run without interruption: the ray after the call.
OutPropagate(e, ray) ==
    IF RayIsTerminated(ray) THEN ray
    ELSE RayAppend(ray, OutIntercept(e, ray), RayK(ray))

\* ------------------------------------------------------------------------
\* State
\* ------------------------------------------------------------------------

VARIABLES
    rays,            \* the Ray objects, by index
    prev,            \* the ray the last call was made on, as it was before the call
    call,            \* the last call: its operation, element and arguments
    raised,          \* the exception the last call raised, "none" when it returned
    interceptpoint,  \* OutputPlane.__interceptpoint of each output plane
    pipeline,        \* driver: the elements, in the order the loop body applies them
    rays0,           \* driver: the rays of the bundle as they were constructed
    ri,              \* driver: index of the ray the loop is at
    ei,              \* driver: index of the element the loop body is at
    status,          \* driver: "running", "done", or "aborted" by an exception
    wpc,             \* workers: where each worker is in OutputPlane.propagate_ray
    wret,            \* workers: the value intercept returned to each worker
    snin,            \* snell: the arguments of the call
    snout,           \* snell: whether the call was made and what it returned
    icin,            \* intercept: the element and the ray of the call
    icout,           \* intercept: whether the call was made and what it returned
    max_rad,         \* make_bundle: its argument
    ba,              \* make_bundle: index a of the ring the outer loop is at
    bb,              \* make_bundle: number of angles of ring a already done
    bundle,          \* make_bundle: the list rays, each entry <<ring, angle index>>
    bpc              \* make_bundle: "rings", "centre" or "returned"

rayVars == <<rays, prev, call, raised, interceptpoint>>
drvVars == <<pipeline, rays0, ri, ei, status>>
wrkVars == <<wpc, wret>>
snlVars == <<snin, snout>>
icpVars == <<icin, icout>>
bndVars == <<max_rad, ba, bb, bundle, bpc>>
vars == <<rayVars, drvVars, wrkVars, snlVars, icpVars, bndVars>>

\* The parts of the state a specification does not use stay at these values.
IdleRay ==
    /\ rays = <<>> /\ prev = None /\ call = None /\ raised = "none"
    /\ interceptpoint = <<>>
IdleDrv == pipeline = <<>> /\ rays0 = <<>> /\ ri = 0 /\ ei = 0 /\ status = "idle"
IdleWrk == wpc = <<>> /\ wret = <<>>
IdleSnl == snin = None /\ snout = None
IdleIcp == icin = None /\ icout = None
IdleBnd == max_rad = 0 /\ ba = 0 /\ bb = 0 /\ bundle = <<>> /\ bpc = "idle"

\* ------------------------------------------------------------------------
\* Inputs
\* ------------------------------------------------------------------------

\* Longest vertex history a ray is taken to.
MaxHist == 3

\* A point or direction given in whole units.
P(x, y, z) == <<Fix(x), Fix(y), Fix(z)>>

\* A converging surface at z0 = 10 with curvature 0.05 (radius 20, centre at
\* z = 30) and aperture 15, from air into glass, and the same surface from
\* glass into air.
SphAirGlass == SphericalRefraction(Fix(10), 5, Fix(1), 150, Fix(15))
SphGlassAir == SphericalRefraction(Fix(10), 5, 150, Fix(1), Fix(15))
\* The same aperture with a flat and with a concave surface.
SphFlat == SphericalRefraction(Fix(10), 0, Fix(1), 150, Fix(15))
SphConcave == SphericalRefraction(Fix(10), -5, Fix(1), 150, Fix(15))
\* A concave surface curved so strongly that its radius 1 / curvature is lost
\* when it is added to z0 and the centre is computed as z0 itself: curvature
\* -inf (radius -0.0), which stands for every curvature whose radius is below
\* half the spacing of the floats at z0 (beyond about -1e15 at z0 = 10).
SphPoint == SphericalRefraction(Fix(10), NegInf, Fix(1), 150, Fix(15))

SphericalElements == {SphAirGlass, SphGlassAir, SphFlat, SphConcave, SphPoint}
OutputPlanes == {OutputPlane(Fix(12)), OutputPlane(Fix(40))}

\* Rays parallel to the axis at heights 0, 12, 14 (inside the aperture) and 16
\* (outside it), and inclined or unnormalised directions.
InitPoints == {P(0, 0, 0), P(12, 0, 0), P(14, 0, 0), P(16, 0, 0), P(0, 0, 20)}
InitDirections == {P(0, 0, 1), P(3, 0, 4), P(0, 1, 0)}

\* Arguments of Ray.append: 3-element ones and ones of the wrong length.
AppendPoints == {P(1, 1, 1), P(2, 2, 2), <<Fix(5), Fix(5), Fix(4), Fix(5)>>}
AppendDirections == {P(5, 6, 3), <<Fix(1), 0>>}

\* ------------------------------------------------------------------------
\* Calls on one ray, in any order (specification Spec)
\* ------------------------------------------------------------------------

TheCall(op, elem, new_p, new_k) ==
    [op |-> op, elem |-> elem, new_p |-> new_p, new_k |-> new_k]

Init ==
    /\ \E point \in InitPoints, direction \in InitDirections :
          /\ ~RayNewRaises(point, direction)
          /\ rays = <<RayNew(point, direction)>>
          /\ call = TheCall("Ray.__init__", None, point, direction)
    /\ prev = None
    /\ raised = "none"
    /\ interceptpoint = [e \in OutputPlanes |-> None]
    /\ IdleDrv /\ IdleWrk /\ IdleSnl /\ IdleIcp /\ IdleBnd

\* ray.append(new_p, new_k)
CallAppend(new_p, new_k) ==
    /\ Len(rays[1].allpos) < MaxHist
    /\ rays' = [rays EXCEPT ![1] = RayAppend(@, new_p, new_k)]
    /\ raised' = IF RayAppendRaises(new_p, new_k) THEN "Exception" ELSE "none"
    /\ prev' = rays[1]
    /\ call' = TheCall("Ray.append", None, new_p, new_k)
    /\ UNCHANGED <<interceptpoint, drvVars, wrkVars, snlVars, icpVars, bndVars>>

\* ray.terminate()
CallTerminate ==
    /\ rays' = [rays EXCEPT ![1] = RayTerminate(@)]
    /\ raised' = "none"
    /\ prev' = rays[1]
    /\ call' = TheCall("Ray.terminate", None, None, None)
    /\ UNCHANGED <<interceptpoint, drvVars, wrkVars, snlVars, icpVars, bndVars>>

\* e.propagate_ray(ray) for a spherical surface e
CallSphPropagate(e) ==
    /\ Len(rays[1].allpos) < MaxHist
    /\ LET result == SphPropagate(e, rays[1])
       IN  /\ rays' = [rays EXCEPT ![1] = result.ray]
           /\ raised' = result.raised
    /\ prev' = rays[1]
    /\ call' = TheCall("SphericalRefraction.propagate_ray", e, None, None)
    /\ UNCHANGED <<interceptpoint, drvVars, wrkVars, snlVars, icpVars, bndVars>>

\* e.propagate_ray(ray) for an output plane e
CallOutPropagate(e) ==
    /\ Len(rays[1].allpos) < MaxHist
    /\ rays' = [rays EXCEPT ![1] = OutPropagate(e, @)]
    /\ interceptpoint' =
          IF RayIsTerminated(rays[1]) THEN interceptpoint
          ELSE [interceptpoint EXCEPT ![e] = OutIntercept(e, rays[1])]
    /\ raised' = "none"
    /\ prev' = rays[1]
    /\ call' = TheCall("OutputPlane.propagate_ray", e, None, None)
    /\ UNCHANGED <<drvVars, wrkVars, snlVars, icpVars, bndVars>>

Next ==
    \/ \E new_p \in AppendPoints, new_k \in AppendDirections : CallAppend(new_p, new_k)
    \/ CallTerminate
    \/ \E e \in SphericalElements : CallSphPropagate(e)
    \/ \E e \in OutputPlanes : CallOutPropagate(e)

Spec == Init /\ [][Next]_vars

\* ------------------------------------------------------------------------
\* Claims about calls on one ray (checked under Spec)
\* ------------------------------------------------------------------------

OpSphPropagate == "SphericalRefraction.propagate_ray"
OpOutPropagate == "OutputPlane.propagate_ray"

\* The last call was propagate_ray of an element.
LastWasPropagate == call.op \in {OpSphPropagate, OpOutPropagate}

\* The last call left the ray's position, direction and history as they were.
RayUntouched ==
    /\ rays[1].pos = prev.pos
    /\ rays[1].dir = prev.dir
    /\ rays[1].allpos = prev.allpos

\* s is a prefix of t.
IsPrefix(s, t) == Len(s) <= Len(t) /\ SubSeq(t, 1, Len(s)) = s

\* C1: a propagate_ray call of any element (SphericalRefraction or OutputPlane)
\* on a ray whose terminated flag is already true leaves the ray's position,
\* direction and vertex history exactly as they were.
C1_TerminatedRayIsNeverChanged ==
    (LastWasPropagate /\ prev.terminated) => RayUntouched

\* The last call was SphericalRefraction.propagate_ray, intercept found a point
\* and snell signalled total internal reflection there.
SnellSignalledTIR ==
    /\ call.op = OpSphPropagate
    /\ SphIntercept(call.elem, prev) # None
    /\ Snell(call.elem, RayK(prev),
             SphNormal(call.elem, SphIntercept(call.elem, prev))) = None

\* C6: when snell signals total internal reflection inside
\* SphericalRefraction.propagate_ray, the call does not raise; the ray is
\* terminated, its history is the old history with exactly one more vertex, the
\* intercept point, which is also its position, and its direction is the
\* incoming direction.
C6_TIRTerminatesAndRecordsIntercept ==
    SnellSignalledTIR =>
        /\ raised = "none"
        /\ rays[1].terminated
        /\ rays[1].allpos = Append(prev.allpos, SphIntercept(call.elem, prev))
        /\ rays[1].pos = SphIntercept(call.elem, prev)
        /\ rays[1].dir = prev.dir

\* C6's case: total internal reflection was signalled for a ray that was not yet
\* terminated and that met the surface off the axis.
C6_Witness ==
    /\ SnellSignalledTIR
    /\ ~prev.terminated
    /\ rays[1].pos[1] # 0

\* The last call was SphericalRefraction.propagate_ray and intercept found no
\* valid point.
NoInterceptFound ==
    /\ call.op = OpSphPropagate
    /\ SphIntercept(call.elem, prev) = None

\* C7: when SphericalRefraction.intercept finds no valid intercept,
\* propagate_ray marks the ray terminated and raises NoInterceptError, and the
\* ray's position, direction and history are what they were before the call.
C7_NoInterceptTerminatesWithoutVertex ==
    NoInterceptFound =>
        /\ raised = "NoInterceptError"
        /\ rays[1].terminated
        /\ RayUntouched

\* C7's case: a ray outside the aperture of a curved surface, not terminated
\* before the call.
C7_Witness ==
    /\ NoInterceptFound
    /\ ~prev.terminated
    /\ call.elem.curvature > 0
    /\ raised = "NoInterceptError"

\* C8: the history starts as exactly the initial position; a successful append
\* makes it the old history followed by new_position; and no call shortens or
\* reorders it or lengthens it by more than one entry.
C8_HistoryIsAppendOnly ==
    /\ call.op = "Ray.__init__" => rays[1].allpos = <<call.new_p>>
    /\ (call.op = "Ray.append" /\ raised = "none") =>
           rays[1].allpos = Append(prev.allpos, call.new_p)
    /\ call.op # "Ray.__init__" =>
           /\ IsPrefix(prev.allpos, rays[1].allpos)
           /\ Len(rays[1].allpos) <= Len(prev.allpos) + 1

\* C8's case: a second successful append, after which the history holds the
\* initial position and both appended positions.
C8_Witness ==
    /\ call.op = "Ray.append"
    /\ raised = "none"
    /\ Len(rays[1].allpos) = 3
    /\ Len(prev.allpos) = 2

\* ------------------------------------------------------------------------
\* The driver loop of main.py (specification SpecDriver)
\*
\*     for ray in rays:
\*         spherical.propagate_ray(ray)
\*         output.propagate_ray(ray)
\*
\* An exception a call raises is caught nowhere: it ends the loop and the script.
\* ------------------------------------------------------------------------

\* Number of rays of a bundle.
BundleSize == 2

DriverPoints == {P(0, 0, 0), P(12, 0, 0), P(14, 0, 0), P(16, 0, 0), P(0, 0, 20)}
DriverDirections == {P(0, 0, 1), P(3, 0, 4)}

\* A spherical surface followed by an output plane, as in main.py.
Pipelines ==
    {<<s, o>> : s \in {SphAirGlass, SphGlassAir}, o \in OutputPlanes}

DriverRays == {RayNew(point, direction) : point \in DriverPoints, direction \in DriverDirections}

InitDriver ==
    /\ rays \in [1..BundleSize -> DriverRays]
    /\ rays0 = rays
    /\ pipeline \in Pipelines
    /\ ri = 1
    /\ ei = 1
    /\ status = "running"
    /\ prev = None
    /\ call = None
    /\ raised = "none"
    /\ interceptpoint = [e \in OutputPlanes |-> None]
    /\ IdleWrk /\ IdleSnl /\ IdleIcp /\ IdleBnd

\* Where the loop is after a call: at the next element for the same ray, at the
\* first element for the next ray, past the last ray ("done"), or stopped by the
\* exception the call raised ("aborted", ri and ei staying at the failed call).
DriverAdvance(exception) ==
    IF exception # "none"
    THEN /\ status' = "aborted"
         /\ UNCHANGED <<ri, ei>>
    ELSE IF ei < Len(pipeline)
    THEN /\ ei' = ei + 1
         /\ UNCHANGED <<ri, status>>
    ELSE /\ ei' = 1
         /\ ri' = ri + 1
         /\ status' = IF ri = Len(rays) THEN "done" ELSE "running"

\* The loop body's call spherical.propagate_ray(ray).
DriverSphPropagate ==
    /\ status = "running"
    /\ pipeline[ei].kind = "SphericalRefraction"
    /\ LET result == SphPropagate(pipeline[ei], rays[ri])
       IN  /\ rays' = [rays EXCEPT ![ri] = result.ray]
           /\ raised' = result.raised
           /\ DriverAdvance(result.raised)
    /\ prev' = rays[ri]
    /\ call' = TheCall(OpSphPropagate, pipeline[ei], None, None)
    /\ UNCHANGED <<interceptpoint, pipeline, rays0, wrkVars, snlVars, icpVars, bndVars>>

\* The loop body's call output.propagate_ray(ray).
DriverOutPropagate ==
    /\ status = "running"
    /\ pipeline[ei].kind = "OutputPlane"
    /\ rays' = [rays EXCEPT ![ri] = OutPropagate(pipeline[ei], @)]
    /\ interceptpoint' =
          IF RayIsTerminated(rays[ri]) THEN interceptpoint
          ELSE [interceptpoint EXCEPT ![pipeline[ei]] = OutIntercept(pipeline[ei], rays[ri])]
    /\ raised' = "none"
    /\ DriverAdvance("none")
    /\ prev' = rays[ri]
    /\ call' = TheCall(OpOutPropagate, pipeline[ei], None, None)
    /\ UNCHANGED <<pipeline, rays0, wrkVars, snlVars, icpVars, bndVars>>

NextDriver == DriverSphPropagate \/ DriverOutPropagate

SpecDriver == InitDriver /\ [][NextDriver]_vars

\* ------------------------------------------------------------------------
\* Claims about the driver (checked under SpecDriver)
\* ------------------------------------------------------------------------

\* Number of propagate_ray calls the loop has made on ray j.
CallsMade(j) ==
    IF j < ri THEN Len(pipeline)
    ELSE IF j > ri THEN 0
    ELSE IF status = "aborted" THEN ei ELSE ei - 1

\* C2: a per-ray geometric failure never aborts the batch: when the loop has
\* stopped, every ray after a failing one has been propagated through all
\* elements of the pipeline.
C2_FailureNeverAbortsBatch ==
    status \in {"done", "aborted"} =>
        \A j \in 1..Len(rays) :
            (\E f \in 1..(j - 1) : rays[f].terminated) => CallsMade(j) = Len(pipeline)

\* The z-coordinates of a vertex history never decrease.
ZNonDecreasing(allpos) ==
    \A i \in 1..(Len(allpos) - 1) : FLe(allpos[i][3], allpos[i + 1][3])

\* The elements of the pipeline come in order of non-decreasing z0.
PipelineOrdered ==
    \A i \in 1..(Len(pipeline) - 1) :
        pipeline[i].zintercept <= pipeline[i + 1].zintercept

\* C9: for a ray constructed with a positive z-component of direction, pushed
\* through a pipeline ordered by non-decreasing z0, the z-coordinates of the
\* vertex history are non-decreasing after every propagate_ray call.
C9_HistoryNeverMovesBackwards ==
    \A j \in 1..Len(rays) :
        (PipelineOrdered /\ rays0[j].dir[3] > 0) => ZNonDecreasing(rays[j].allpos)

\* Ray j met the first element of the pipeline, an n1 = 1.5, n2 = 1 surface that
\* an output plane follows, at an incidence angle above the critical angle:
\* sin(theta_i) > n2 / n1.
AboveCriticalAngle(j) ==
    LET e == pipeline[1]
        point == SphIntercept(e, rays0[j])
    IN  /\ e.kind = "SphericalRefraction" /\ e.n1 = 150 /\ e.n2 = Fix(1)
        /\ pipeline[2].kind = "OutputPlane"
        /\ point # None
        /\ FGt(SinThetaI(RayK(rays0[j]), SphNormal(e, point)), FDiv(e.n2, e.n1))

\* C5: a ray that met the n1 = 1.5, n2 = 1 surface above the critical angle is
\* terminated, and once the output plane has been applied too, the last entry of
\* its history is still the intercept point on the refracting surface.
C5_TIRRayStopsAtSurface ==
    \A j \in 1..Len(rays) :
        (CallsMade(j) = Len(pipeline) /\ AboveCriticalAngle(j)) =>
            /\ rays[j].terminated
            /\ rays[j].allpos[Len(rays[j].allpos)] = SphIntercept(pipeline[1], rays0[j])

\* ------------------------------------------------------------------------
\* Workers sharing one element (specification SpecWorkers)
\*
\* Each worker w calls element.propagate_ray(rays[w]) on its own ray; the element
\* is shared.  Threads switch between bytecodes, so OutputPlane.intercept's
\* store to self.__interceptpoint and its load of that field for the return are
\* separate steps.  SphericalRefraction.propagate_ray writes no field of the
\* element and is one step.
\* ------------------------------------------------------------------------

NWorkers == 2

WorkerRays ==
    {RayNew(point, P(0, 0, 1)) : point \in {P(0, 0, 0), P(12, 0, 0), P(14, 0, 0)}}
    \cup {RayNew(P(0, 0, 0), P(3, 0, 4)), RayTerminate(RayNew(P(0, 0, 0), P(0, 0, 1)))}

SharedElements == OutputPlanes \cup {SphAirGlass}

InitWorkers ==
    /\ rays \in [1..NWorkers -> WorkerRays]
    /\ \A v, w \in 1..NWorkers : v # w => rays[v] # rays[w]
    /\ rays0 = rays
    /\ \E e \in SharedElements : pipeline = <<e>>
    /\ wpc = [w \in 1..NWorkers |-> "start"]
    /\ wret = [w \in 1..NWorkers |-> None]
    /\ interceptpoint = [e \in OutputPlanes |-> None]
    /\ ri = 0 /\ ei = 0 /\ status = "idle"
    /\ prev = None /\ call = None /\ raised = "none"
    /\ IdleSnl /\ IdleIcp /\ IdleBnd

\* SphericalRefraction.propagate_ray(ray), whole.
WorkerSphPropagate(w) ==
    /\ wpc[w] = "start"
    /\ pipeline[1].kind = "SphericalRefraction"
    /\ rays' = [rays EXCEPT ![w] = SphPropagate(pipeline[1], @).ray]
    /\ wpc' = [wpc EXCEPT ![w] = "done"]
    /\ UNCHANGED <<prev, call, raised, interceptpoint, drvVars, wret, snlVars, icpVars, bndVars>>

\* OutputPlane.propagate_ray: if ray.is_terminated(): return ray
WorkerOutEnter(w) ==
    /\ wpc[w] = "start"
    /\ pipeline[1].kind = "OutputPlane"
    /\ wpc' = [wpc EXCEPT ![w] = IF RayIsTerminated(rays[w]) THEN "done" ELSE "store"]
    /\ UNCHANGED <<rayVars, drvVars, wret, snlVars, icpVars, bndVars>>

\* OutputPlane.intercept: self.__interceptpoint = np.add(ray_pos, (n * ray_k))
WorkerOutStore(w) ==
    /\ wpc[w] = "store"
    /\ interceptpoint' =
          [interceptpoint EXCEPT ![pipeline[1]] = OutIntercept(pipeline[1], rays[w])]
    /\ wpc' = [wpc EXCEPT ![w] = "load"]
    /\ UNCHANGED <<rays, prev, call, raised, drvVars, wret, snlVars, icpVars, bndVars>>

\* OutputPlane.intercept: return self.__interceptpoint
WorkerOutLoad(w) ==
    /\ wpc[w] = "load"
    /\ wret' = [wret EXCEPT ![w] = interceptpoint[pipeline[1]]]
    /\ wpc' = [wpc EXCEPT ![w] = "append"]
    /\ UNCHANGED <<rayVars, drvVars, snlVars, icpVars, bndVars>>

\* OutputPlane.propagate_ray: ray.append(<the returned point>, ray.k())
WorkerOutAppend(w) ==
    /\ wpc[w] = "append"
    /\ rays' = [rays EXCEPT ![w] = RayAppend(@, wret[w], RayK(@))]
    /\ wpc' = [wpc EXCEPT ![w] = "done"]
    /\ UNCHANGED <<prev, call, raised, interceptpoint, drvVars, wret, snlVars, icpVars, bndVars>>

NextWorkers ==
    \E w \in 1..NWorkers :
        \/ WorkerSphPropagate(w)
        \/ WorkerOutEnter(w)
        \/ WorkerOutStore(w)
        \/ WorkerOutLoad(w)
        \/ WorkerOutAppend(w)

SpecWorkers == InitWorkers /\ [][NextWorkers]_vars

\* The ray a worker's call leaves when it runs with no other call interleaved.
AloneResult(e, ray) ==
    IF e.kind = "OutputPlane" THEN OutPropagate(e, ray) ELSE SphPropagate(e, ray).ray

\* C3: when workers call propagate_ray on the same element with different
\* non-terminated rays, every interleaving leaves each ray with exactly the
\* vertex history, position and direction it gets when the calls run one after
\* the other.
C3_ConcurrentCallsDoNotLeak ==
    \A w \in 1..NWorkers :
        (wpc[w] = "done" /\ \A v \in 1..NWorkers : ~rays0[v].terminated) =>
            rays[w] = AloneResult(pipeline[1], rays0[w])

\* ------------------------------------------------------------------------
\* snell as a function of its arguments (specification SpecSnell)
\* ------------------------------------------------------------------------

\* Pairs n1, n2 of refractive indices: 1, 1.5 and 1.52.
SnellIndices == {<<Fix(1), 150>>, <<150, Fix(1)>>, <<Fix(1), Fix(1)>>, <<152, Fix(1)>>}

\* Unit vectors at incidence sines 0, 0.28, 0.6, 0.8 and 0.96 to the z-axis.
SnellIncidentDirs ==
    {<<0, 0, 100>>, <<28, 0, 96>>, <<60, 0, 80>>, <<80, 0, 60>>, <<96, 0, 28>>,
     <<0, 28, 96>>, <<0, 60, 80>>, <<0, 80, 60>>, <<0, 96, 28>>}

SnellNormals == {<<0, 0, 100>>, <<-60, 0, 80>>}

InitSnell ==
    /\ \E n \in SnellIndices, incident_dir \in SnellIncidentDirs,
          surface_normal \in SnellNormals :
          snin = [e |-> SphericalRefraction(Fix(10), 5, n[1], n[2], Fix(15)),
                  incident_dir |-> incident_dir,
                  surface_normal |-> surface_normal]
    /\ snout = [called |-> FALSE, value |-> None]
    /\ IdleRay /\ IdleDrv /\ IdleWrk /\ IdleIcp /\ IdleBnd

\* e.snell(incident_dir, surface_normal)
CallSnell ==
    /\ ~snout.called
    /\ snout' = [called |-> TRUE,
                 value |-> Snell(snin.e, snin.incident_dir, snin.surface_normal)]
    /\ UNCHANGED <<snin, rayVars, drvVars, wrkVars, icpVars, bndVars>>

NextSnell == CallSnell

SpecSnell == InitSnell /\ [][NextSnell]_vars

\* The sine of the incidence angle of the call's arguments.
SnellSinI == SinThetaI(snin.incident_dir, snin.surface_normal)

\* C4: for a surface with n1 > n2, snell signals total internal reflection
\* (returns None) for every incidence angle with sin(theta_i) > n2 / n1, and
\* returns a real refracted direction for every incidence angle with
\* sin(theta_i) < n2 / n1.
C4_CriticalAngleBoundary ==
    (snout.called /\ snin.e.n1 > snin.e.n2) =>
        /\ FGt(SnellSinI, FDiv(snin.e.n2, snin.e.n1)) => snout.value = None
        /\ FLt(SnellSinI, FDiv(snin.e.n2, snin.e.n1)) =>
               (snout.value # None /\ ~VHasNaN(snout.value))

\* ------------------------------------------------------------------------
\* make_bundle (specification SpecBundle)
\*
\* A ray of the bundle is kept as <<a, b>>: ring a (radius spread_range[a - 1])
\* and the index b of its angle among the angles of that ring; the central ray
\* at the origin is <<0, 0>>.
\* ------------------------------------------------------------------------

\* Largest argument of make_bundle.
MaxRings == 5

\* rings[a]: the number of points of the ring with 0-based index a,
\* 6 * np.array(range(1, spread + 1)).
RingPoints(a) == 6 * (a + 1)

\* The number of angles had the circle been closed with one more sample,
\* np.linspace(0, np.pi * 2, ring + 1).
NumAnglesClosed(ring) == ring + 1

\* len(np.linspace(0, np.pi * 2, ring)): both end points are among the ring
\* angles.
NumAngles(ring) == ring

\* len(spread_range): np.linspace(0, spread, len(rings) + 1)[1:]
NumRings(spread) == (spread + 1) - 1

InitBundle ==
    /\ max_rad \in 1..MaxRings
    /\ ba = 0
    /\ bb = 0
    /\ bundle = <<>>
    /\ bpc = "rings"
    /\ IdleRay /\ IdleDrv /\ IdleWrk /\ IdleSnl /\ IdleIcp

\* One pass of the inner loop: rays.append(Ray(pos, dir)) for the next angle of
\* ring a; after the last angle the outer loop moves to the next ring, and
\* after the last ring to the statement that adds the central ray.
BundleAddRingRay ==
    /\ bpc = "rings"
    /\ ba < NumRings(max_rad)
    /\ bb < NumAngles(RingPoints(ba))
    /\ bundle' = Append(bundle, <<ba + 1, bb>>)
    /\ IF bb + 1 < NumAngles(RingPoints(ba))
       THEN /\ bb' = bb + 1
            /\ UNCHANGED <<ba, bpc>>
       ELSE /\ bb' = 0
            /\ ba' = ba + 1
            /\ bpc' = IF ba + 1 < NumRings(max_rad) THEN "rings" ELSE "centre"
    /\ UNCHANGED <<max_rad, rayVars, drvVars, wrkVars, snlVars, icpVars>>

\* rays.append(Ray([0, 0, 0], [0, 0, 1])); return rays
BundleAddCentre ==
    /\ bpc = "centre"
    /\ bundle' = Append(bundle, <<0, 0>>)
    /\ bpc' = "returned"
    /\ UNCHANGED <<max_rad, ba, bb, rayVars, drvVars, wrkVars, snlVars, icpVars>>

NextBundle == BundleAddRingRay \/ BundleAddCentre

SpecBundle == InitBundle /\ [][NextBundle]_vars

\* Number of rays of the bundle on ring i.
OnRing(i) == Cardinality({n \in 1..Len(bundle) : bundle[n][1] = i})

\* C10: make_bundle(k), k >= 1, returns exactly 3k(k+1)+1 rays: 6*i rays for
\* each ring i = 1..k plus one central ray at the origin.
C10_BundleSize ==
    bpc = "returned" =>
        /\ Len(bundle) = 3 * max_rad * (max_rad + 1) + 1
        /\ \A i \in 1..max_rad : OnRing(i) = 6 * i
        /\ OnRing(0) = 1
        /\ \A n \in 1..Len(bundle) : bundle[n][1] \in 0..max_rad

\* C10's case: make_bundle(5) has returned its 91 rays.
C10_Witness ==
    /\ bpc = "returned"
    /\ max_rad = 5
    /\ Len(bundle) = 91

\* ------------------------------------------------------------------------
\* PlaneRefraction, the flat interface main.py places in its pipelines
\* (specification SpecPlane)
\* ------------------------------------------------------------------------

\* PlaneRefraction(z0, n1, n2, apertureRadius), with the argument order of
\* main.py's calls.
PlaneRefraction(z0, n1, n2, rad) ==
    [kind |-> "PlaneRefraction", zintercept |-> z0, n1 |-> n1, n2 |-> n2,
     aperturerad |-> rad]

\* PlaneRefraction.intercept: the point at L = (z0 - position_z) / direction_z
\* along the ray, or None when its lateral radius exceeds the aperture.
PlaneIntercept(e, ray) ==
    LET length == FDiv(FSub(e.zintercept, RayP(ray)[3]), RayK(ray)[3])
        intercept_point == VAdd(RayP(ray), VScale(length, RayK(ray)))
        x_sqr_plus_y_sqr == FAdd(FSq(intercept_point[1]), FSq(intercept_point[2]))
    IN  IF FLe(x_sqr_plus_y_sqr, FSq(e.aperturerad)) THEN intercept_point
        ELSE None

\* The surface normal of a PlaneRefraction: the axis vector, negated for a ray
\* that travels towards smaller z.
PlaneNormal(ray) ==
    IF FLt(RayK(ray)[3], 0) THEN <<0, 0, FNeg(Fix(1))>> ELSE <<0, 0, Fix(1)>>

\* PlaneRefraction.propagate_ray: the control flow of
\* SphericalRefraction.propagate_ray with the flat intercept and normal.
PlanePropagate(e, ray) ==
    LET intercept_point == PlaneIntercept(e, ray)
        refracted_dir == Snell(e, RayK(ray), PlaneNormal(ray))
    IN  IF intercept_point = None
        THEN [ray |-> RayTerminate(ray), raised |-> "NoInterceptError"]
        ELSE IF refracted_dir = None
        THEN [ray |-> RayAppend(RayTerminate(ray), intercept_point, RayK(ray)),
              raised |-> "none"]
        ELSE [ray |-> RayAppend(ray, intercept_point, refracted_dir),
              raised |-> "none"]

\* Flat interfaces at z0 = 10 and z0 = 15 with aperture 15: between equal
\* indices (glass to glass, air to air) and from glass into air.
PlaneGlassGlass == PlaneRefraction(Fix(10), 150, 150, Fix(15))
PlaneElements ==
    {PlaneRefraction(z0, n[1], n[2], Fix(15)) :
        z0 \in {Fix(10), Fix(15)},
        n \in {<<150, 150>>, <<Fix(1), Fix(1)>>, <<152, Fix(1)>>}}

\* Rays on and off the axis, inside and outside the aperture, before and
\* behind the planes; along the axis both ways, inclined, and across the axis.
PlanePoints == {P(0, 0, 0), P(12, 0, 0), P(16, 0, 0), P(0, 0, 20)}
PlaneDirections == {P(0, 0, 1), P(3, 0, 4), P(0, 3, 4), P(0, 0, -1), P(0, 1, 0)}

InitPlane ==
    /\ \E point \in PlanePoints, direction \in PlaneDirections :
          /\ rays = <<RayNew(point, direction)>>
          /\ call = TheCall("Ray.__init__", None, point, direction)
    /\ prev = None
    /\ raised = "none"
    /\ interceptpoint = <<>>
    /\ IdleDrv /\ IdleWrk /\ IdleSnl /\ IdleIcp /\ IdleBnd

\* e.propagate_ray(ray) for a flat interface e
CallPlanePropagate(e) ==
    /\ Len(rays[1].allpos) < MaxHist
    /\ LET result == PlanePropagate(e, rays[1])
       IN  /\ rays' = [rays EXCEPT ![1] = result.ray]
           /\ raised' = result.raised
    /\ prev' = rays[1]
    /\ call' = TheCall("PlaneRefraction.propagate_ray", e, None, None)
    /\ UNCHANGED <<interceptpoint, drvVars, wrkVars, snlVars, icpVars, bndVars>>

NextPlane == \E e \in PlaneElements : CallPlanePropagate(e)

SpecPlane == InitPlane /\ [][NextPlane]_vars

OpPlanePropagate == "PlaneRefraction.propagate_ray"

\* The last call was propagate_ray of a flat interface with n1 == n2, on a ray
\* that was not terminated, had a non-zero direction_z and hit the plane
\* inside the aperture.
PlaneIdentityCase ==
    /\ call.op = OpPlanePropagate
    /\ call.elem.n1 = call.elem.n2
    /\ ~RayIsTerminated(prev)
    /\ RayK(prev)[3] # 0 /\ ~IsNaN(RayK(prev)[3])
    /\ PlaneIntercept(call.elem, prev) # None

C11_WitnessAxial ==
    /\ PlaneIdentityCase
    /\ call.elem = PlaneGlassGlass
    /\ prev = RayNew(P(0, 0, 0), P(0, 0, 1))
    /\ RayVertices(rays[1]) = <<P(0, 0, 0), P(0, 0, 10)>>
    /\ RayK(rays[1]) = P(0, 0, 1)

InterceptPoints ==
    InitPoints \cup {P(0, 0, 12), P(-20, 0, 12), P(25, 0, 0), P(0, 0, 40)}
InterceptDirections == InitDirections \cup {P(1, 0, 0), P(0, 0, -1)}

InitIntercept ==
    /\ \E e \in SphericalElements, point \in InterceptPoints,
          direction \in InterceptDirections :
          icin = [e |-> e, ray |-> RayNew(point, direction)]
    /\ icout = [called |-> FALSE, value |-> None]
    /\ IdleRay /\ IdleDrv /\ IdleWrk /\ IdleSnl /\ IdleBnd

\* e.intercept(ray)
CallIntercept ==
    /\ ~icout.called
    /\ icout' = [called |-> TRUE, value |-> SphIntercept(icin.e, icin.ray)]
    /\ UNCHANGED <<icin, rayVars, drvVars, wrkVars, snlVars, bndVars>>

NextIntercept == CallIntercept

SpecIntercept == InitIntercept /\ [][NextIntercept]_vars

\* The two candidate points of the call: I1 for L = -rk + sqrt(disc), I2 for
\* L = -rk - sqrt(disc).
I1 == SphInterceptOne(icin.e, icin.ray)
I2 == SphInterceptTwo(icin.e, icin.ray)

\* Validity as the claim states it: x^2 + y^2 <= apertureRadius^2 and
\* z0 <= z <= centre_z.
ClaimedValid(i) ==
    /\ FLe(FAdd(FSq(i[1]), FSq(i[2])), FSq(icin.e.aperturerad))
    /\ FLe(icin.e.zintercept, i[3])
    /\ FLe(i[3], SphCentre(icin.e)[3])

\* C12: intercept returns I1 whenever I1 is valid, I2 only when I1 is invalid
\* and I2 is valid, and None exactly when neither is valid, in particular
\* when the discriminant is negative; every returned point is valid.
C12_InterceptTieBreak ==
    icout.called =>
        /\ ClaimedValid(I1) => icout.value = I1
        /\ (~ClaimedValid(I1) /\ ClaimedValid(I2)) => icout.value = I2
        /\ (icout.value = I2 /\ I2 # I1) => ~ClaimedValid(I1)
        /\ (icout.value = None) <=> (~ClaimedValid(I1) /\ ~ClaimedValid(I2))
        /\ FLt(SphDisc(icin.e, icin.ray), 0) => icout.value = None
        /\ icout.value # None => ClaimedValid(icout.value)

\* Both roots were valid and different, and the call returned I1.
C12_Witness ==
    /\ icout.called
    /\ ClaimedValid(I1) /\ ClaimedValid(I2) /\ I1 # I2
    /\ icout.value = I1

\* ------------------------------------------------------------------------
\* Flat and concave spherical surfaces (checked under Spec)
\* ------------------------------------------------------------------------

\* The last call was propagate_ray of a spherical surface built with
\* curvature <= 0.
NonConvexCase ==
    /\ call.op = OpSphPropagate
    /\ call.elem.curvature <= 0

\* The call found no intercept: it terminated the ray, raised NoInterceptError
\* and added no vertex.
EndedWithNoIntercept ==
    /\ raised = "NoInterceptError"
    /\ RayIsTerminated(rays[1])
    /\ RayVertices(rays[1]) = RayVertices(prev)

\* C13 as stated: a SphericalRefraction built with curvature <= 0 never yields
\* an intercept, so propagate_ray ends every ray with NoInterceptError,
\* whatever the ray's position and direction.
C13_NonConvexNeverIntercepts ==
    NonConvexCase => EndedWithNoIntercept

\* The centre __init__ computed lies strictly below z0, or the surface is flat.
CentreBelowVertex(e) ==
    e.curvature = 0 \/ FLt(SphCentre(e)[3], e.zintercept)

\* C13 amended: a SphericalRefraction built with curvature 0, or with a
\* curvature < 0 for which the computed centre z0 + 1 / curvature is below z0,
\* never yields an intercept, so propagate_ray ends every ray with
\* NoInterceptError, whatever the ray's position and direction.
C13_NonConvexWithCentreBelowNeverIntercepts ==
    (NonConvexCase /\ CentreBelowVertex(call.elem)) => EndedWithNoIntercept

\* A live ray on the axis, heading for the surface, was ended by a concave
\* surface.
C13_Witness ==
    /\ NonConvexCase
    /\ call.elem = SphConcave
    /\ ~RayIsTerminated(prev)
    /\ RayP(prev) = P(0, 0, 0) /\ RayK(prev) = P(0, 0, 1)
    /\ EndedWithNoIntercept

\* ------------------------------------------------------------------------
\* Position and history of a ray (checked under Spec)
\* ------------------------------------------------------------------------

\* C14: after construction and after every append, terminate and
\* propagate_ray call, failed ones included, the ray's position p() is the
\* last entry of vertices().
C14_PositionIsLastVertex ==
    RayP(rays[1]) = RayVertices(rays[1])[Len(RayVertices(rays[1]))]

\* An append failed on its direction argument alone, on a ray that had been
\* moved before.
C14_Witness ==
    /\ call.op = "Ray.append"
    /\ raised = "Exception"
    /\ Len(call.new_p) = 3
    /\ Len(RayVertices(rays[1])) > 1
    /\ RayP(rays[1]) # call.new_p

====
